---- MODULE Spec2Model ----
(***************************************************************************)
(* Model of jira-contributor-summary: the hierarchy builder                *)
(* (hierarchy.py), the rank ordering and display walk, the contributor     *)
(* extractor with its memo (contributors.py), the ticket cache (cache.py), *)
(* the contributors view data (html_generator.py) and the generate         *)
(* command (cli.py).                                                       *)
(*                                                                         *)
(* Ticket keys are the integers 1..NKeys.  The tracker is an external      *)
(* collaborator: what a fetch or a search answers is chosen when the call  *)
(* is issued (every key is stored at most once, so this covers every fixed *)
(* tracker graph, and every pattern of failing calls).                     *)
(***************************************************************************)
EXTENDS Integers, Sequences, FiniteSets, TLC

\* ------------------------------------------------------------------ bounds
\* Number of ticket keys the tracker knows.
NKeys == 3
\* Total number of child references (subtask entries and search hits) the
\* tracker answers during one build.
MaxLinks == 3
\* Number of changes a caller makes to the maps it passes to the extractor.
MaxMutations == 1
StaleKeys == 2
StaleLinks == 2

Keys == 1..NKeys

\* ------------------------------------------------------------ ticket data
\* issuetype names, already lower-cased: one containing "epic", one containing
\* "feature" (or "initiative"/"theme"), one containing neither.
IssueTypes == {"epic", "feature", "task"}

\* Values of the first parseable rank field, creation timestamps and display
\* names the tracker's tickets are drawn from.
MaxRank == 1
Ranks == 1..MaxRank
NCreated == 1
Createds == 1..NCreated
NPeople == 2
\* Longest list value of a field, and number of customfield_* entries.
MaxItems == 2
MaxCustom == 1
\* Longest issue-type name, in fragments, and most issues a link search returns.
MaxFragments == 2
MaxHits == 1
\* Positional arguments main passes to JiraClient and to TicketHierarchy, and
\* positional parameters their constructors take (self not counted).
JiraClientCallArgs == 3
JiraClientParams == 2
TicketHierarchyCallArgs == 2
TicketHierarchyParams == 1
\* Number of ticket keys put into the cache, and of distinct instants.
NCacheKeys == 2
NTimes == 2
People == 1..NPeople

\* Absent field values.
\* A missing or empty displayName.
NoName == 0
NoRank == -1
NoCreated == 0
\* float("inf")
Infinity == 2000000
\* hash(created) % 1000000
HashModulus == 1000000

VARIABLES
    \* --- TicketHierarchy
    all_tickets,      \* dict key -> ticket data, as the sequence of its items (insertion order)
    hierarchy,        \* defaultdict(list): key -> child keys (<<>> when the key is absent)
    root_tickets,     \* list of designated root keys
    \* --- control state of one build
    pc,               \* "idle", "run", "done", "raised"
    pending,          \* search results build_hierarchy still has to loop over
    stack,            \* frames [key, i] of _process_ticket_recursive inside their child loop
    \* --- the client and the tracker behind it
    client_has_jira,  \* whether the client object has the .jira attribute the link searches use
    tracker_fields,   \* fields of the tracker's tickets that are kept in the model: subset of
                      \* {"rank", "created", "people", "issuetype", "resolution"}
    \* --- history of the build
    fetches,          \* key -> number of get_ticket calls issued
    stores,           \* key -> number of executions of all_tickets[key] = ticket_data
    failures,         \* key -> number of get_ticket calls that raised
    \* --- rank ordering and display
    py_hash,          \* created -> hash(created) % 1000000 in this process (string hashing is seeded per process)
    sorted_keys,      \* what get_sorted_tickets_by_rank returned, NotCalled before
    display_data,     \* what get_hierarchy_for_display returned, NotCalled before
    \* --- ContributorExtractor and its caller
    contributor_cache,  \* dict key -> set of names (a function on the memoized keys)
    in_tickets,       \* the all_tickets argument the caller holds: key -> ticket (on the present keys)
    in_hierarchy,     \* the ticket_hierarchy argument the caller holds: key -> child keys
    result,           \* the last call on the extractor and what it returned
    first_result,     \* key -> the set the aggregation produced when it was last computed
    mutations,        \* number of changes the caller made to its maps
    \* --- extract_contributors_from_ticket on one payload
    payload,          \* the "fields" of the ticket_data argument
    extracted,        \* what extract_contributors_from_ticket returned, NotCalled before
    \* --- TicketCache: the cache directory, one instance, and its caller
    tickets_file,     \* content of tickets.json
    metadata_file,    \* content of metadata.json
    cache_alive,      \* "none" (no instance), "live", "raised" (the constructor raised)
    mem_tickets,      \* self._tickets: key -> payload
    mem_metadata,     \* self._metadata: key -> [last_updated]
    cache_result,     \* the last call on the cache and what it returned
    completed,        \* key -> payload of the put_ticket calls that returned since the last clear_cache
    phase,            \* what happened since the last put_ticket or clear_cache
    \* --- HtmlGenerator._generate_contributors_data on one pair of arguments
    report_input,     \* [display_data, contributor_summary]
    contributors_data,  \* what _generate_contributors_data returned, NotCalled before
    \* --- _get_child_ticket_keys on one ticket
    child_input,      \* the ticket's type name and subtasks, and what the two searches would answer
    child_output,     \* what _get_child_ticket_keys returned and the searches it issued, NotCalled before
    \* --- the generate command
    cli_env,          \* the options of the run and the state of what it talks to
    cli_pc,           \* the statement of main that runs next, "exited" after the process ended
    exit_code         \* <<the exit code of the process>>, <<>> while it runs

viewVars == <<py_hash, sorted_keys, display_data>>

memoVars == <<contributor_cache, in_tickets, in_hierarchy, result, first_result,
              mutations>>

reportVars == <<report_input, contributors_data, child_input, child_output, cli_env, cli_pc,
                exit_code>>

ioVars == <<payload, extracted, tickets_file, metadata_file, cache_alive, mem_tickets,
            mem_metadata, cache_result, completed, phase, reportVars>>

buildVars == <<all_tickets, hierarchy, root_tickets, pc, pending, stack,
               client_has_jira, tracker_fields, fetches, stores, failures>>

\* ---------------------------------------------------------------- helpers
RECURSIVE NoDupSeqsOfLen(_, _)
NoDupSeqsOfLen(S, n) ==
    IF n = 0 THEN {<<>>}
    ELSE UNION {{<<x>> \o s : s \in NoDupSeqsOfLen(S \ {x}, n - 1)} : x \in S}

NoDupSeqs(S, n) == UNION {NoDupSeqsOfLen(S, m) : m \in 0..n}

RECURSIVE SeqsOfLen(_, _)
SeqsOfLen(S, n) ==
    IF n = 0 THEN {<<>>}
    ELSE UNION {{<<x>> \o s : s \in SeqsOfLen(S, n - 1)} : x \in S}

SeqsUpTo(S, n) == UNION {SeqsOfLen(S, m) : m \in 0..n}

Range(s) == {s[i] : i \in 1..Len(s)}

NoDuplicateKeys(s) == \A i, j \in 1..Len(s) : i # j => s[i] # s[j]

Min(a, b) == IF a < b THEN a ELSE b

Max(a, b) == IF a > b THEN a ELSE b

SetMin(S) == CHOOSE x \in S : \A y \in S : x <= y
SetMax(S) == CHOOSE x \in S : \A y \in S : x >= y

\* The code uses ticket keys only through equality (dict and set membership;
\* the sort is by rank and insertion order, never by key), so the keys are
\* interchangeable names.  The tracker's answers are enumerated up to
\* renaming: a key mentioned for the first time is the smallest key not yet
\* mentioned (known = number of keys mentioned before).
RECURSIVE InOrderOfMention(_, _)
InOrderOfMention(s, known) ==
    IF s = <<>> THEN TRUE
    ELSE /\ Head(s) <= known + 1
         /\ InOrderOfMention(Tail(s), Max(known, Head(s)))

\* Mutants of the guard "if ticket_key in self.all_tickets: return": no guard
\* at all, and a guard that looks at the designated roots only.
InAllTicketsNever(at, k) == FALSE
InAllTicketsAmongRoots(at, k) ==
    (\E i \in 1..Len(at) : at[i].key = k) /\ k \in Range(root_tickets)

\* key in self.all_tickets
InAllTickets(at, k) == \E i \in 1..Len(at) : at[i].key = k

AllKeys(at) == {at[i].key : i \in 1..Len(at)}

\* self.all_tickets[k] of a present key
TicketOf(at, k) == at[CHOOSE i \in 1..Len(at) : at[i].key = k]

\* ------------------------------------------------- what the tracker answers
\* Fields of a fetched ticket that are read again after the ticket is stored.
\* The subtasks and issuetype fields are read once, when the ticket is stored,
\* and are passed separately (ChildAnswers).
\* tracker_fields says which of these fields the tracker's tickets carry at
\* all.  A ticket with a parseable rank returns from get_rank before its
\* creation timestamp is read, so such tickets are enumerated with one
\* timestamp only.  With "issuetype" the stored ticket keeps the type its
\* children were derived from, with "resolution" whether it is resolved.
TicketData(k) ==
    {d \in [key : {k},
            itype : IF "issuetype" \in tracker_fields THEN IssueTypes ELSE {"any"},
            resolved : IF "resolution" \in tracker_fields THEN BOOLEAN ELSE {FALSE},
            rank : IF "rank" \in tracker_fields THEN Ranks \cup {NoRank} ELSE {NoRank},
            created : IF "created" \in tracker_fields THEN Createds \cup {NoCreated}
                      ELSE {NoCreated},
            people : IF "people" \in tracker_fields THEN SUBSET People ELSE {{}}] :
        d.rank # NoRank => d.created = NoCreated}

\* Answer of client.jira.jql(...): it raises, or it returns issues (a key may
\* be listed twice).
JqlRaises == [ok |-> FALSE, issues |-> <<>>]
JqlAnswers(n) == {JqlRaises} \cup {[ok |-> TRUE, issues |-> s] : s \in SeqsUpTo(Keys, n)}

\* ------------------------------------------------------ child derivation
\* The loop "if child_key and child_key not in child_keys: child_keys.append".
RECURSIVE AppendUnique(_, _)
AppendUnique(acc, issues) ==
    IF issues = <<>> THEN acc
    ELSE AppendUnique(IF Head(issues) \in Range(acc) THEN acc ELSE Append(acc, Head(issues)),
                      Tail(issues))

\* _search_tickets_with_epic_link: any exception (the client has no .jira
\* attribute, or the query fails) is caught and the result is the empty list.
SearchTicketsWithEpicLink(has_jira, resp) ==
    IF ~has_jira \/ ~resp.ok THEN <<>> ELSE AppendUnique(<<>>, resp.issues)

\* _search_tickets_with_parent_link: same shape, for "Parent Link".
SearchTicketsWithParentLink(has_jira, resp) ==
    IF ~has_jira \/ ~resp.ok THEN <<>> ELSE AppendUnique(<<>>, resp.issues)

\* _get_child_ticket_keys: the subtasks, then the hits of at most one search.
GetChildTicketKeys(itype, subtasks, has_jira, resp) ==
    subtasks \o
        (IF itype = "epic" THEN SearchTicketsWithEpicLink(has_jira, resp)
         ELSE IF itype = "feature" THEN SearchTicketsWithParentLink(has_jira, resp)
         ELSE <<>>)

\* What the tracker can answer about a ticket's children with budget n: the
\* issuetype, the subtasks (distinct keys) and the answer of the search that
\* is issued (none for a plain type, none reaches a client without .jira).
ChildAnswers(has_jira, n, known) ==
    {a \in [itype : IssueTypes, subtasks : NoDupSeqs(Keys, Min(n, NKeys)), resp : JqlAnswers(n)] :
        /\ Len(a.subtasks) + Len(a.resp.issues) <= n
        /\ (a.itype = "task" \/ ~has_jira => a.resp = JqlRaises)
        /\ InOrderOfMention(a.subtasks \o a.resp.issues, known)}

RECURSIVE SumLen(_, _)
SumLen(h, S) ==
    IF S = {} THEN 0
    ELSE LET k == CHOOSE x \in S : TRUE IN Len(h[k]) + SumLen(h, S \ {k})

\* Child references recorded so far.
LinksUsed == SumLen(hierarchy, Keys)

\* Number of keys the tracker or the caller has mentioned so far.
Known ==
    Cardinality(AllKeys(all_tickets) \cup Range(pending) \cup Range(root_tickets)
                \cup UNION {Range(hierarchy[k]) : k \in Keys})

\* ------------------------------------------------------------- the build
\* A result variable before the call and after it.
NotCalled == [called |-> FALSE, value |-> <<>>]
Returned(v) == [called |-> TRUE, value |-> v]

\* The empty dict.
EmptyMap == [k \in {} |-> {}]

\* The last call on the extractor: which one (op), on which key, after which
\* call (prev), after how many changes of the caller's maps (at), and what it
\* returned (value or summary) unless it raised.
NoCall == [op |-> "none", key |-> 0, prev |-> "none", at |-> 0,
           raised |-> FALSE, value |-> {}, summary |-> EmptyMap]

\* ContributorExtractor.__init__, with a caller that holds the maps tickets and h.
MemoInit(tickets, h) ==
    /\ contributor_cache = EmptyMap
    /\ in_tickets = tickets
    /\ in_hierarchy = h
    /\ result = NoCall
    /\ first_result = EmptyMap
    /\ mutations = 0

\* A file that does not exist, and a file holding the JSON text of map m.
MissingFile == [kind |-> "missing", map |-> EmptyMap]
JsonFile(m) == [kind |-> "json", map |-> m]

\* A file whose text is not JSON (also: empty or cut short), and a file
\* whose bytes are not UTF-8 text.
CorruptFile == [kind |-> "corrupt", map |-> EmptyMap]
BinaryFile == [kind |-> "binary", map |-> EmptyMap]

\* The "updated" field of a payload, and the last_updated of a metadata
\* entry: absent (or empty), a string that is no ISO timestamp, or the
\* timestamp string of instant t; the tracker's timestamps carry an offset.
\* A datetime object is an instant, with an offset (aware) or without.
NoUpdated == [kind |-> "none", t |-> 0, aware |-> FALSE]
BadStamp == [kind |-> "bad", t |-> 0, aware |-> FALSE]
Stamp(t, aware) == [kind |-> "time", t |-> t, aware |-> aware]
UpdatedValues == {NoUpdated, BadStamp} \cup {Stamp(t, TRUE) : t \in 1..NTimes}
CurrentValues == {Stamp(t, a) : t \in 1..NTimes, a \in BOOLEAN}

\* A ticket payload: its fields.updated and the value of some other field,
\* a JSON string ("text") or an object json cannot encode ("datetime").
TicketPayloads == [updated : UpdatedValues, body : {"text", "datetime"}]

\* No call made on the cache yet.  A call is recorded with its key, what it
\* returned (value: <<>> for None), the current timestamp it was given and
\* the failure it met.
NoCacheCall == [op |-> "none", key |-> 0, value |-> <<>>, current |-> NoUpdated,
                fault |-> "none"]

\* Nothing put or cleared yet.  last is the last of "put", "clear", "crash";
\* fresh says that an instance was created after it; key is the key of the
\* last put; held is the number of tickets the last clear_cache found.
NoPhase == [last |-> "start", fresh |-> FALSE, key |-> 0, held |-> 0]

\* JSON values of the fields extract_contributors_from_ticket reads: null, an
\* object (with the displayName n, or without a usable one: NoName), a
\* string, a list of objects and strings.
Null == [kind |-> "null", name |-> NoName, items |-> <<>>]
Person(n) == [kind |-> "dict", name |-> n, items |-> <<>>]
Text == [kind |-> "str", name |-> NoName, items |-> <<>>]
ListOf(s) == [kind |-> "list", name |-> NoName, items |-> s]

\* The tracker sends a person field (assignee, reporter, creator) as null or
\* as an object; a custom field and the contributors field hold any value.
PersonValues == {Null} \cup {Person(n) : n \in {NoName} \cup People}
ItemValues == {Person(n) : n \in {NoName} \cup People} \cup {Text}
FieldValues == PersonValues \cup {Text} \cup {ListOf(s) : s \in SeqsUpTo(ItemValues, MaxItems)}

\* The "fields" object of a ticket: customs are its customfield_* entries,
\* creator stands for the fields that are neither custom nor read by name.
Payloads ==
    [assignee : PersonValues, reporter : PersonValues, contributors : FieldValues,
     customs : SeqsUpTo(FieldValues, MaxCustom), creator : {Null, Person(1)}]

\* No payload, no cache instance, an empty cache directory.
NoPayload == [assignee |-> Null, reporter |-> Null, contributors |-> Null, customs |-> <<>>,
              creator |-> Null]

CacheIdle ==
    /\ tickets_file = MissingFile
    /\ metadata_file = MissingFile
    /\ cache_alive = "none"
    /\ mem_tickets = EmptyMap
    /\ mem_metadata = EmptyMap
    /\ cache_result = NoCacheCall
    /\ completed = EmptyMap
    /\ phase = NoPhase

\* No arguments handed to _generate_contributors_data, no ticket handed to
\* _get_child_ticket_keys, and no run of the generate command.
NoReportInput == [display_data |-> <<>>, contributor_summary |-> EmptyMap]
NoChildInput == [name |-> <<>>, subtasks |-> <<>>, has_jira |-> FALSE,
                 epic |-> JqlRaises, parent |-> JqlRaises]
NoCliEnv == [clear_cache |-> FALSE, verbose |-> FALSE, token |-> FALSE,
             cache_dir_ok |-> FALSE, tracker_up |-> FALSE, output_ok |-> FALSE]
NotStarted == [at |-> "none", ended |-> "no"]

ChildIdle ==
    /\ child_input = NoChildInput
    /\ child_output = NotCalled

CliIdle ==
    /\ cli_env = NoCliEnv
    /\ cli_pc = NotStarted
    /\ exit_code = <<>>

ReportIdle ==
    /\ report_input = NoReportInput
    /\ contributors_data = NotCalled
    /\ ChildIdle
    /\ CliIdle

IoIdle ==
    /\ payload = NoPayload
    /\ extracted = NotCalled
    /\ CacheIdle
    /\ ReportIdle

BuildInit(fields) ==
    /\ tracker_fields = fields
    /\ sorted_keys = NotCalled
    /\ display_data = NotCalled
    /\ all_tickets = <<>>
    /\ hierarchy = [k \in Keys |-> <<>>]
    /\ root_tickets = <<>>
    /\ pc = "idle"
    /\ pending = <<>>
    /\ stack = <<>>
    /\ client_has_jira \in BOOLEAN
    /\ fetches = [k \in Keys |-> 0]
    /\ stores = [k \in Keys |-> 0]
    /\ failures = [k \in Keys |-> 0]

\* _process_ticket_recursive lines 101-113 for ticket k with data d: store the
\* ticket, derive the children, record them when there are some and enter the
\* loop over them (stk is the caller's stack).
StoreTicket(k, d, stk) ==
    \E ans \in ChildAnswers(client_has_jira, MaxLinks - LinksUsed, Max(Known, k)) :
        LET child_keys == GetChildTicketKeys(ans.itype, ans.subtasks, client_has_jira, ans.resp) IN
        /\ "issuetype" \in tracker_fields => d.itype = ans.itype
        /\ all_tickets' = Append(all_tickets, d)
        /\ stores' = [stores EXCEPT ![k] = @ + 1]
        /\ IF child_keys # <<>>
           THEN /\ hierarchy' = [hierarchy EXCEPT ![k] = child_keys]
                /\ stack' = Append(stk, [key |-> k, i |-> 1])
           ELSE /\ hierarchy' = hierarchy
                /\ stack' = stk

\* JiraClient.search_tickets(project_key, issue_types, max_results): the
\* clauses of the JQL it sends.  There is no resolution parameter and no
\* resolution clause; the third argument is the maxResults request parameter.
SearchTicketsJql(project_key, issue_types, max_results) ==
    {"project"} \cup (IF issue_types # {} THEN {"issuetype"} ELSE {})

\* The query of build_hierarchy's root search: search_tickets(project_key,
\* root_issue_types, "Unresolved").
RootSearchJql == SearchTicketsJql("project", {"Feature", "Issue", "Bug"}, "Unresolved")

\* Whether the tracker lists ticket d in the answer to a query with these clauses.
MatchesJql(d, jql) == "resolution = Unresolved" \in jql => ~d.resolved

\* build_hierarchy, lines 37-46: the root search answers a list of tickets, or raises.
BuildHierarchy ==
    /\ UNCHANGED <<viewVars, memoVars, ioVars>>
    /\ pc = "idle"
    /\ \/ \E roots \in NoDupSeqs(Keys, NKeys) :
            /\ InOrderOfMention(roots, 0)
            /\ pending' = roots
            /\ pc' = "run"
       \/ /\ pc' = "raised"
          /\ pending' = pending
    /\ UNCHANGED <<all_tickets, hierarchy, root_tickets, stack, client_has_jira,
                   tracker_fields, fetches, stores, failures>>

\* build_hierarchy, lines 49-52: one iteration of the loop over the search
\* results; the ticket data comes with the search result (no fetch).
RootStep ==
    /\ UNCHANGED <<viewVars, memoVars, ioVars>>
    /\ pc = "run"
    /\ stack = <<>>
    /\ pending # <<>>
    /\ LET k == Head(pending) IN
       /\ root_tickets' = Append(root_tickets, k)
       /\ pending' = Tail(pending)
       /\ IF InAllTickets(all_tickets, k)
          THEN /\ MatchesJql(TicketOf(all_tickets, k), RootSearchJql)
               /\ UNCHANGED <<all_tickets, hierarchy, stack, stores>>
          ELSE \E d \in TicketData(k) :
                  /\ MatchesJql(d, RootSearchJql)
                  /\ StoreTicket(k, d, stack)
    /\ UNCHANGED <<pc, client_has_jira, tracker_fields, fetches, failures>>

\* A starting-ticket handler that prints the failure and returns normally.
StartFetchFailedReturns == "done"

\* build_hierarchy_from_ticket, lines 73-75: "except Exception as e: print(...); raise".
StartFetchFailed == "raised"

\* build_hierarchy_from_ticket: fetch the starting ticket; a failure is
\* printed and re-raised, otherwise the ticket becomes a root and is processed.
BuildHierarchyFromTicket ==
    /\ UNCHANGED <<viewVars, memoVars, ioVars>>
    /\ pc = "idle"
    /\ \E k \in Keys :
        /\ InOrderOfMention(<<k>>, 0)
        /\ fetches' = [fetches EXCEPT ![k] = @ + 1]
        /\ \/ /\ failures' = [failures EXCEPT ![k] = @ + 1]
              /\ pc' = StartFetchFailed
              /\ UNCHANGED <<all_tickets, hierarchy, root_tickets, stack, stores>>
           \/ /\ failures' = failures
              /\ pc' = "run"
              /\ root_tickets' = Append(root_tickets, k)
              /\ \E d \in TicketData(k) : StoreTicket(k, d, stack)
    /\ UNCHANGED <<pending, client_has_jira, tracker_fields>>

\* The frame on top of the stack and the child its loop is at.
Top == stack[Len(stack)]
InChildLoop == stack # <<>> /\ Top.i <= Len(hierarchy[Top.key])
NextChild == hierarchy[Top.key][Top.i]
\* Mutant of the loop over child_keys: every other child is passed over.
AdvancedByTwo == [stack EXCEPT ![Len(stack)].i = @ + 2]
Advanced == [stack EXCEPT ![Len(stack)].i = @ + 1]

\* _process_ticket_recursive(child_key), lines 88-90: the key is already in
\* the flat map, nothing happens.
ChildSkip ==
    /\ UNCHANGED <<viewVars, memoVars, ioVars>>
    /\ pc = "run"
    /\ InChildLoop
    /\ InAllTickets(all_tickets, NextChild)
    /\ stack' = Advanced
    /\ UNCHANGED <<all_tickets, hierarchy, root_tickets, pc, pending, client_has_jira,
                   tracker_fields, fetches, stores, failures>>

\* A child handler that lets the failure leave the recursive step.
ChildFetchFailedRaises == "raised"

\* _process_ticket_recursive, lines 97-99: "except Exception as e: print(...); return".
ChildFetchFailed == "run"

\* lines 93-99: the fetch of the child raises; it is printed and the call returns.
ChildFetchFails ==
    /\ UNCHANGED <<viewVars, memoVars, ioVars>>
    /\ pc = "run"
    /\ InChildLoop
    /\ ~InAllTickets(all_tickets, NextChild)
    /\ fetches' = [fetches EXCEPT ![NextChild] = @ + 1]
    /\ failures' = [failures EXCEPT ![NextChild] = @ + 1]
    /\ stack' = Advanced
    /\ pc' = ChildFetchFailed
    /\ UNCHANGED <<all_tickets, hierarchy, root_tickets, pending, client_has_jira,
                   tracker_fields, stores>>

\* lines 93-113: the child is fetched, stored, and its own children are entered.
ChildFetched ==
    /\ UNCHANGED <<viewVars, memoVars, ioVars>>
    /\ pc = "run"
    /\ InChildLoop
    /\ ~InAllTickets(all_tickets, NextChild)
    /\ fetches' = [fetches EXCEPT ![NextChild] = @ + 1]
    /\ \E d \in TicketData(NextChild) : StoreTicket(NextChild, d, Advanced)
    /\ UNCHANGED <<root_tickets, pc, pending, client_has_jira, tracker_fields, failures>>

\* The loop over child_keys is exhausted: the call returns to its caller.
Return ==
    /\ UNCHANGED <<viewVars, memoVars, ioVars>>
    /\ pc = "run"
    /\ stack # <<>>
    /\ ~InChildLoop
    /\ stack' = SubSeq(stack, 1, Len(stack) - 1)
    /\ UNCHANGED <<all_tickets, hierarchy, root_tickets, pc, pending, client_has_jira,
                   tracker_fields, fetches, stores, failures>>

\* The build method returns to its caller.
BuildReturns ==
    /\ UNCHANGED <<viewVars, memoVars, ioVars>>
    /\ pc = "run"
    /\ stack = <<>>
    /\ pending = <<>>
    /\ pc' = "done"
    /\ UNCHANGED <<all_tickets, hierarchy, root_tickets, pending, stack, client_has_jira,
                   tracker_fields, fetches, stores, failures>>

BuildStep ==
    \/ BuildHierarchy
    \/ BuildHierarchyFromTicket
    \/ RootStep
    \/ ChildSkip
    \/ ChildFetchFails
    \/ ChildFetched
    \/ Return
    \/ BuildReturns

vars == <<buildVars, viewVars, memoVars, ioVars>>

Init ==
    /\ BuildInit({})
    /\ IoIdle
    /\ py_hash = [c \in Createds |-> 0]
    /\ MemoInit(EmptyMap, [k \in Keys |-> <<>>])
Next == BuildStep
Spec == Init /\ [][Next]_vars

\* The same builds, keeping the issue type and the resolution of each ticket.
FieldsInit ==
    /\ BuildInit({"issuetype", "resolution"})
    /\ IoIdle
    /\ py_hash = [c \in Createds |-> 0]
    /\ MemoInit(EmptyMap, [k \in Keys |-> <<>>])

SpecFields == FieldsInit /\ [][Next]_vars

\* ------------------------------------------------- rank order and display
\* Residues hash(created) % 1000000 can take: the smallest (below every rank)
\* and the largest (above every rank of the model).
HashResidues == {0, HashModulus - 1}

\* get_rank: the first parseable rank field; else the hashed creation
\* timestamp; else float("inf").
GetRank(at, k) ==
    IF ~InAllTickets(at, k) THEN Infinity
    ELSE LET t == TicketOf(at, k) IN
         IF t.rank # NoRank THEN t.rank
         ELSE IF t.created # NoCreated THEN py_hash[t.created]
         ELSE Infinity

\* An insertion that puts a key before the keys of the same rank.
RECURSIVE InsertBeforeEqual(_, _, _)
InsertBeforeEqual(at, s, k) ==
    IF s = <<>> THEN <<k>>
    ELSE IF GetRank(at, k) <= GetRank(at, Head(s)) THEN <<k>> \o s
    ELSE <<Head(s)>> \o InsertBeforeEqual(at, Tail(s), k)

\* sorted(..., key=get_rank) is stable: a key goes behind every key already
\* placed whose rank is not larger.
RECURSIVE InsertByRank(_, _, _)
InsertByRank(at, s, k) ==
    IF s = <<>> THEN <<k>>
    ELSE IF GetRank(at, k) < GetRank(at, Head(s)) THEN <<k>> \o s
    ELSE <<Head(s)>> \o InsertByRank(at, Tail(s), k)

RECURSIVE SortByRank(_, _)
SortByRank(at, n) ==
    IF n = 0 THEN <<>> ELSE InsertByRank(at, SortByRank(at, n - 1), at[n].key)

\* get_sorted_tickets_by_rank
GetSortedTicketsByRank(at) == SortByRank(at, Len(at))

\* The keys of S in the order of the flat map.
AmongUnsorted(at, S) == SelectSeq([i \in 1..Len(at) |-> at[i].key], LAMBDA k : k \in S)

\* [key for key in self.get_sorted_tickets_by_rank() if key in S]
SortedAmong(at, S) == SelectSeq(GetSortedTicketsByRank(at), LAMBDA k : k \in S)

\* The roots the build designated.
FindDesignatedRoots(at, h) == Range(root_tickets)

\* _find_true_root_tickets
FindTrueRootTickets(at, h) ==
    AllKeys(at) \ UNION {Range(h[p]) : p \in {k \in Keys : h[k] # <<>>} \cap AllKeys(at)}

\* _add_ticket_to_display: acc holds display_data (the key and the level of
\* each item; summary and ticket_data are looked up from the key) and the
\* processed set.
RECURSIVE AddTicketToDisplay(_, _, _, _, _)
RECURSIVE AddAllToDisplay(_, _, _, _, _)
AddTicketToDisplay(at, h, k, level, acc) ==
    IF k \in acc.processed THEN acc
    ELSE AddAllToDisplay(at, h, SortedAmong(at, Range(h[k])), level + 1,
                         [items |-> Append(acc.items, [key |-> k, level |-> level]),
                          processed |-> acc.processed \cup {k}])

\* for child_key in sorted_children: self._add_ticket_to_display(...)
AddAllToDisplay(at, h, ks, level, acc) ==
    IF ks = <<>> THEN acc
    ELSE AddAllToDisplay(at, h, Tail(ks), level, AddTicketToDisplay(at, h, Head(ks), level, acc))

\* Mutant of get_hierarchy_for_display: the processed set is created anew for
\* every root.
RECURSIVE DisplayEachRootAlone(_, _, _)
DisplayEachRootAlone(at, h, roots) ==
    IF roots = <<>> THEN <<>>
    ELSE AddTicketToDisplay(at, h, Head(roots), 0, [items |-> <<>>, processed |-> {}]).items
         \o DisplayEachRootAlone(at, h, Tail(roots))
HierarchyForDisplayFreshSets(at, h) ==
    DisplayEachRootAlone(at, h, SortedAmong(at, FindTrueRootTickets(at, h)))

\* get_hierarchy_for_display
HierarchyForDisplay(at, h) ==
    AddAllToDisplay(at, h, SortedAmong(at, FindTrueRootTickets(at, h)), 0,
                    [items |-> <<>>, processed |-> {}]).items

\* A caller asks the finished builder for the rank order.
GetSortedTicketsByRankCall ==
    /\ pc = "done"
    /\ ~display_data.called
    /\ sorted_keys' = Returned(GetSortedTicketsByRank(all_tickets))
    /\ UNCHANGED <<buildVars, memoVars, ioVars, py_hash, display_data>>

\* A caller asks the finished builder for the display list.
GetHierarchyForDisplayCall ==
    /\ pc = "done"
    /\ display_data' = Returned(HierarchyForDisplay(all_tickets, hierarchy))
    /\ UNCHANGED <<buildVars, memoVars, ioVars, py_hash, sorted_keys>>

DisplayInit ==
    /\ BuildInit({"rank", "created"})
    /\ IoIdle
    /\ MemoInit(EmptyMap, [k \in Keys |-> <<>>])
    /\ client_has_jira
    /\ py_hash \in [Createds -> HashResidues]

DisplayNext ==
    \/ BuildStep
    \/ GetSortedTicketsByRankCall
    \/ GetHierarchyForDisplayCall

SpecDisplay == DisplayInit /\ [][DisplayNext]_vars

\* The program is run again over the same tracker data, which gives the same
\* maps; string hashing is seeded anew in every process (line 257), and the
\* new process sorts the tickets.
SortedInNewProcess ==
    /\ pc = "done"
    /\ sorted_keys.called
    /\ ~display_data.called
    /\ UNCHANGED <<buildVars, memoVars, ioVars, display_data>>
    /\ py_hash' \in [Createds -> HashResidues]
    /\ sorted_keys' = Returned(GetSortedTicketsByRank(all_tickets))'

RerunNext ==
    \/ DisplayNext
    \/ SortedInNewProcess

SpecRerun == DisplayInit /\ [][RerunNext]_vars

\* ---------------------------------------------------- ContributorExtractor
\* A ticket of the caller's map is represented by the display names its
\* person fields hold; extract_contributors_from_ticket collects them.
ExtractContributorsFromTicket(t) == t.people

\* A lookup that never finds an entry.
MemoizedNever(cache, k) == FALSE

\* if ticket_key in self.contributor_cache
Memoized(cache, k) == k \in DOMAIN cache

\* self.contributor_cache[ticket_key] = all_contributors.copy()
Memoize(cache, k, v) == [x \in DOMAIN cache \cup {k} |-> IF x = k THEN v ELSE cache[x]]

\* A child lookup that stops after the first child.
ChildrenOfFirst(h, k) == IF h[k] = <<>> THEN <<>> ELSE <<Head(h[k])>>

\* ticket_hierarchy.get(ticket_key, [])
ChildrenOf(h, k) == h[k]

\* get_all_contributors_for_ticket_hierarchy, as the recursion runs: the
\* answer is [value, cache, raised].  path holds the keys of the calls that
\* are active; entering one of them again while it is not memoized repeats
\* the same calls without end, which Python ends with RecursionError (the
\* exception leaves every active call, the memo keeps what completed calls
\* stored).
RECURSIVE AllContributors(_, _, _, _, _)
RECURSIVE ChildContributors(_, _, _, _, _, _)
AllContributors(tickets, h, k, cache, path) ==
    IF Memoized(cache, k) THEN [value |-> cache[k], cache |-> cache, raised |-> FALSE]
    ELSE IF k \in path THEN [value |-> {}, cache |-> cache, raised |-> TRUE]
    ELSE LET own == IF k \in DOMAIN tickets
                    THEN ExtractContributorsFromTicket(tickets[k]) ELSE {}
             r == ChildContributors(tickets, h, ChildrenOf(h, k), cache, path \cup {k}, own)
         IN  IF r.raised THEN r
             ELSE [value |-> r.value, cache |-> Memoize(r.cache, k, r.value), raised |-> FALSE]

\* for child_key in children: all_contributors.update(<recursive call>)
ChildContributors(tickets, h, cs, cache, path, acc) ==
    IF cs = <<>> THEN [value |-> acc, cache |-> cache, raised |-> FALSE]
    ELSE LET r == AllContributors(tickets, h, Head(cs), cache, path) IN
         IF r.raised THEN r
         ELSE ChildContributors(tickets, h, Tail(cs), r.cache, path, acc \cup r.value)

\* A loop over the tickets that are nobody's child only.
SummaryKeysRootsOnly(tickets, h) ==
    {k \in DOMAIN tickets : \A p \in DOMAIN h : k \notin Range(h[p])}

\* The keys get_contributor_summary loops over: "for ticket_key in all_tickets".
SummaryKeys(tickets, h) == DOMAIN tickets

\* get_contributor_summary, as its loop runs over the keys not yet done:
\* [summary, cache, raised].
RECURSIVE ContributorSummary(_, _, _, _, _)
ContributorSummary(tickets, h, todo, cache, summary) ==
    IF todo = {} THEN [summary |-> summary, cache |-> cache, raised |-> FALSE]
    ELSE LET k == CHOOSE x \in todo : \A y \in todo : x <= y
             r == AllContributors(tickets, h, k, cache, {})
         IN  IF r.raised THEN [summary |-> EmptyMap, cache |-> r.cache, raised |-> TRUE]
             ELSE ContributorSummary(tickets, h, todo \ {k}, r.cache,
                                     Memoize(summary, k, r.value))

\* A clear that leaves the memo as it is.
ClearedCacheKept(cache) == cache

\* self.contributor_cache.clear()
ClearedCache(cache) == EmptyMap

\* What first_result becomes when the memo goes from old to new: keys that
\* were not memoized get the set stored for them.
Remember(first, old, new) ==
    [k \in DOMAIN first \cup (DOMAIN new \ DOMAIN old) |->
        IF k \in DOMAIN old /\ k \in DOMAIN first THEN first[k] ELSE new[k]]

\* A caller runs get_all_contributors_for_ticket_hierarchy(k, in_tickets, in_hierarchy).
GetAllContributorsCall ==
    /\ \E k \in Keys :
        LET r == AllContributors(in_tickets, in_hierarchy, k, contributor_cache, {}) IN
        /\ contributor_cache' = r.cache
        /\ first_result' = Remember(first_result, contributor_cache, r.cache)
        /\ result' = [op |-> "all", key |-> k, prev |-> result.op, at |-> mutations,
                      raised |-> r.raised, value |-> r.value, summary |-> EmptyMap]
    /\ UNCHANGED <<buildVars, viewVars, ioVars, in_tickets, in_hierarchy, mutations>>

\* A caller runs get_contributor_summary(in_tickets, in_hierarchy).
GetContributorSummaryCall ==
    /\ LET r == ContributorSummary(in_tickets, in_hierarchy,
                                   SummaryKeys(in_tickets, in_hierarchy),
                                   contributor_cache, EmptyMap) IN
        /\ contributor_cache' = r.cache
        /\ first_result' = Remember(first_result, contributor_cache, r.cache)
        /\ result' = [op |-> "summary", key |-> 0, prev |-> result.op, at |-> mutations,
                      raised |-> r.raised, value |-> {}, summary |-> r.summary]
    /\ UNCHANGED <<buildVars, viewVars, ioVars, in_tickets, in_hierarchy, mutations>>

\* A caller runs clear_cache().
ClearCacheCall ==
    /\ contributor_cache' = ClearedCache(contributor_cache)
    /\ first_result' = EmptyMap
    /\ result' = [NoCall EXCEPT !.op = "clear", !.prev = result.op, !.at = mutations]
    /\ UNCHANGED <<buildVars, viewVars, ioVars, in_tickets, in_hierarchy, mutations>>

\* get_all_tickets() and get_hierarchy_map() of the finished builder.
GetAllTickets(at) == [k \in AllKeys(at) |-> [people |-> TicketOf(at, k).people]]
GetHierarchyMap(h) == h

\* main hands the maps of the finished build to get_contributor_summary of a
\* new extractor (cli.py:128-138).
SummaryOfBuildCall ==
    /\ pc = "done"
    /\ result.op = "none"
    /\ in_tickets' = GetAllTickets(all_tickets)
    /\ in_hierarchy' = GetHierarchyMap(hierarchy)
    /\ LET r == ContributorSummary(in_tickets', in_hierarchy',
                                   SummaryKeys(in_tickets', in_hierarchy'),
                                   contributor_cache, EmptyMap) IN
        /\ contributor_cache' = r.cache
        /\ first_result' = Remember(first_result, contributor_cache, r.cache)
        /\ result' = [op |-> "summary", key |-> 0, prev |-> result.op, at |-> mutations,
                      raised |-> r.raised, value |-> {}, summary |-> r.summary]
    /\ UNCHANGED <<buildVars, viewVars, ioVars, mutations>>

PipelineNext ==
    \/ BuildStep
    \/ SummaryOfBuildCall

SpecPipeline == Init /\ [][PipelineNext]_vars

\* The maps a caller can hold: tickets for some of the keys, each with a set
\* of names, and child lists holding at most MaxLinks keys in all.
TicketMaps == UNION {[S -> [people : SUBSET People]] : S \in SUBSET Keys}

RECURSIVE ChildListsUpTo(_, _)
ChildListsUpTo(n, budget) ==
    IF n = 0 THEN {<<>>}
    ELSE UNION {{Append(hs, cs) : hs \in ChildListsUpTo(n - 1, budget - Len(cs))} :
                    cs \in SeqsUpTo(Keys, budget)}

HierarchyMaps == ChildListsUpTo(NKeys, MaxLinks)

\* The extractor uses keys and names only through equality (dict lookups and
\* set unions), so both are interchangeable labels; the initial maps are
\* enumerated up to renaming.  Keys: reading the child lists of keys 1, 2, ...
\* in turn, a key mentioned for the first time is the smallest one not yet
\* mentioned or read.  Names: likewise along the tickets of keys 1, 2, ...
RECURSIVE KeysInOrder(_, _, _)
KeysInOrder(h, i, known) ==
    IF i > NKeys THEN TRUE
    ELSE /\ InOrderOfMention(h[i], Max(known, i))
         /\ KeysInOrder(h, i + 1,
                        Max(Max(known, i), IF h[i] = <<>> THEN 0 ELSE SetMax(Range(h[i]))))

RECURSIVE NamesInOrder(_, _, _)
NamesInOrder(t, i, known) ==
    IF i > NKeys THEN TRUE
    ELSE LET names == IF i \in DOMAIN t THEN t[i].people ELSE {} IN
         /\ \A n \in names : \A m \in 1..(n - 1) : m > known => m \in names
         /\ NamesInOrder(t, i + 1, IF names = {} THEN known ELSE Max(known, SetMax(names)))

\* The maps of a caller that changes them between calls: tickets and child
\* lists over the first StaleKeys keys, at most StaleLinks child keys in all.
StaleKeySet == 1..StaleKeys

StaleTicketMaps == UNION {[S -> [people : SUBSET People]] : S \in SUBSET StaleKeySet}

StaleHierarchyMaps ==
    {h \in [Keys -> SeqsUpTo(StaleKeySet, StaleLinks)] :
        /\ SumLen(h, Keys) <= StaleLinks
        /\ \A k \in Keys \ StaleKeySet : h[k] = <<>>}

\* The caller adds, drops or changes one ticket of the flat map it passes in.
ChangeTicket ==
    /\ mutations < MaxMutations
    /\ contributor_cache # EmptyMap
    /\ \E t \in StaleTicketMaps :
        /\ t # in_tickets
        /\ \E k \in StaleKeySet : \A x \in StaleKeySet \ {k} :
              /\ x \in DOMAIN t <=> x \in DOMAIN in_tickets
              /\ x \in DOMAIN t => t[x] = in_tickets[x]
        /\ in_tickets' = t
    /\ mutations' = mutations + 1
    /\ UNCHANGED <<buildVars, viewVars, ioVars, contributor_cache, in_hierarchy, result,
                   first_result>>

\* The caller changes the child list of one ticket.
ChangeHierarchy ==
    /\ mutations < MaxMutations
    /\ contributor_cache # EmptyMap
    /\ \E h \in StaleHierarchyMaps :
        /\ h # in_hierarchy
        /\ \E k \in StaleKeySet : \A x \in StaleKeySet \ {k} : h[x] = in_hierarchy[x]
        /\ in_hierarchy' = h
    /\ mutations' = mutations + 1
    /\ UNCHANGED <<buildVars, viewVars, ioVars, contributor_cache, in_tickets, result,
                   first_result>>

MemoSpecInit ==
    /\ BuildInit({})
    /\ IoIdle
    /\ client_has_jira
    /\ py_hash = [c \in Createds |-> 0]
    /\ \E t \in TicketMaps, h \in HierarchyMaps :
        /\ KeysInOrder(h, 1, 0)
        /\ NamesInOrder(t, 1, 0)
        /\ MemoInit(t, h)

MemoNext ==
    \/ GetAllContributorsCall
    \/ GetContributorSummaryCall
    \/ ClearCacheCall

SpecMemo == MemoSpecInit /\ [][MemoNext]_vars

StaleInit ==
    /\ BuildInit({})
    /\ IoIdle
    /\ client_has_jira
    /\ py_hash = [c \in Createds |-> 0]
    /\ \E t \in StaleTicketMaps, h \in StaleHierarchyMaps : MemoInit(t, h)

StaleNext ==
    \/ MemoNext
    \/ ChangeTicket
    \/ ChangeHierarchy

SpecStale == StaleInit /\ [][StaleNext]_vars

\* ----------------------------------- extract_contributors_from_ticket
\* Truth value of a JSON value in "if value": null, "" and [] are false.
Truthy(v) == v.kind # "null" /\ (v.kind = "list" => v.items # <<>>)

\* contributors.add(name): the set as the list of its distinct elements.
SetAdd(acc, n) == IF n \in Range(acc) THEN acc ELSE Append(acc, n)

\* "if x.get('displayName'): contributors.add(x['displayName'])" for an object x.
AddDisplayName(acc, x) == IF x.name # NoName THEN SetAdd(acc, x.name) ELSE acc

\* The loops over a list value: objects with a displayName are added.
RECURSIVE AddFromItems(_, _)
AddFromItems(acc, items) ==
    IF items = <<>> THEN acc
    ELSE AddFromItems(IF Head(items).kind = "dict" THEN AddDisplayName(acc, Head(items))
                      ELSE acc,
                      Tail(items))

\* Lines 38-45 and 50-57: a list of persons, or a single person.
AddFromValue(acc, v) ==
    IF v.kind = "list" THEN AddFromItems(acc, v.items)
    ELSE IF v.kind = "dict" THEN AddDisplayName(acc, v)
    ELSE acc

\* fields.items(): the entries of the fields object.
FieldItems(f) ==
    <<[name |-> "assignee", value |-> f.assignee]>>
    \o [i \in 1..Len(f.customs) |-> [name |-> "customfield_", value |-> f.customs[i]]]
    \o <<[name |-> "contributors", value |-> f.contributors],
         [name |-> "reporter", value |-> f.reporter],
         [name |-> "creator", value |-> f.creator]>>

\* A test that lets every field through.
StartsWithAnything(name) == TRUE

\* field_name.startswith("customfield_")
StartsWithCustomfield(name) == name = "customfield_"

\* Lines 35-45: the loop over all fields.
RECURSIVE AddFromCustomFields(_, _)
AddFromCustomFields(acc, fs) ==
    IF fs = <<>> THEN acc
    ELSE AddFromCustomFields(
            IF StartsWithCustomfield(Head(fs).name) /\ Truthy(Head(fs).value)
            THEN AddFromValue(acc, Head(fs).value) ELSE acc,
            Tail(fs))

\* extract_contributors_from_ticket: assignee, custom fields, contributors
\* field, reporter, in this order.
ExtractContributors(f) ==
    LET a == IF Truthy(f.assignee) THEN AddDisplayName(<<>>, f.assignee) ELSE <<>>
        b == AddFromCustomFields(a, FieldItems(f))
        c == IF Truthy(f.contributors) THEN AddFromValue(b, f.contributors) ELSE b
    IN  IF Truthy(f.reporter) THEN AddDisplayName(c, f.reporter) ELSE c

\* A caller runs extract_contributors_from_ticket on the payload.
ExtractCall ==
    /\ ~extracted.called
    /\ extracted' = Returned(ExtractContributors(payload))
    /\ UNCHANGED <<buildVars, viewVars, memoVars, reportVars, payload, tickets_file, metadata_file,
                   cache_alive, mem_tickets, mem_metadata, cache_result, completed, phase>>

\* The parts of the state that belong to the builder and the aggregation, at rest.
OthersIdle ==
    /\ BuildInit({})
    /\ ReportIdle
    /\ client_has_jira
    /\ py_hash = [c \in Createds |-> 0]
    /\ MemoInit(EmptyMap, [k \in Keys |-> <<>>])

ExtractInit ==
    /\ OthersIdle
    /\ payload \in Payloads
    /\ extracted = NotCalled
    /\ CacheIdle

ExtractNext == ExtractCall

SpecExtract == ExtractInit /\ [][ExtractNext]_vars

\* ------------------------------------------------------------ TicketCache
CacheKeys == 1..NCacheKeys

\* A payload made of values json encodes as they are.
JsonData(d) == d.body # "datetime"

\* The payloads the program caches: what the tracker sent, parsed from JSON.
JsonPayloads == {d \in TicketPayloads : JsonData(d)}

\* An encoder that writes the updated field as some other string.
EncodeLossy(d) == [d EXCEPT !.updated = BadStamp]

\* json.dump(..., default=str) on one payload: a value json cannot encode is
\* written as the string str() gives for it.
Encode(d) == [d EXCEPT !.body = IF @ = "datetime" THEN "text" ELSE @]

\* The map that the text written by json.dump(self._tickets, ...) stands for.
DumpTickets(m) == [k \in DOMAIN m |-> Encode(m[k])]

\* The metadata entries hold strings only.
DumpMetadata(m) == m

\* _load_cache for one file, when the read fails or not: [raised, map].  A
\* missing file is not read; OSError and JSONDecodeError leave the empty map;
\* bytes that are not UTF-8 make json.load raise UnicodeDecodeError, which
\* is neither.
LoadFile(file, read_fails) ==
    IF file.kind = "missing" THEN [raised |-> FALSE, map |-> EmptyMap]
    ELSE IF read_fails THEN [raised |-> FALSE, map |-> EmptyMap]
    ELSE IF file.kind = "binary" THEN [raised |-> TRUE, map |-> EmptyMap]
    ELSE IF file.kind = "corrupt" THEN [raised |-> FALSE, map |-> EmptyMap]
    ELSE [raised |-> FALSE, map |-> file.map]

Freshened == [phase EXCEPT !.fresh = TRUE]

\* TicketCache.__init__ once the directory exists: both maps start empty and
\* _load_cache reads the tickets file, then the metadata file.
Construct(tickets_fail, metadata_fail, fault) ==
    LET t == LoadFile(tickets_file, tickets_fail)
        m == LoadFile(metadata_file, metadata_fail)
    IN  /\ cache_alive' = IF t.raised \/ m.raised THEN "raised" ELSE "live"
        /\ mem_tickets' = t.map
        /\ mem_metadata' = IF t.raised THEN EmptyMap ELSE m.map
        /\ cache_result' = [NoCacheCall EXCEPT !.op = "new", !.fault = fault]
        /\ phase' = Freshened
        /\ UNCHANGED <<buildVars, viewVars, memoVars, reportVars, payload, extracted, tickets_file,
                       metadata_file, completed>>

\* A TicketCache is created on the directory.
NewInstance == Construct(FALSE, FALSE, "none")

\* put_ticket lines 82-90: the maps after the assignments.
PutInTickets(m, k, d) == [x \in DOMAIN m \cup {k} |-> IF x = k THEN d ELSE m[x]]
PutInMetadata(m, k, d) ==
    IF d.updated.kind = "none" THEN m
    ELSE [x \in DOMAIN m \cup {k} |-> IF x = k THEN [last_updated |-> d.updated] ELSE m[x]]

\* The part of put_ticket that all its outcomes share.
PutInMemory(k, d, fault) ==
    /\ cache_alive = "live"
    /\ mem_tickets' = PutInTickets(mem_tickets, k, d)
    /\ mem_metadata' = PutInMetadata(mem_metadata, k, d)
    /\ cache_result' = [NoCacheCall EXCEPT !.op = "put", !.key = k, !.value = <<d>>,
                                           !.fault = fault]
    /\ completed' = PutInTickets(completed, k, d)
    /\ phase' = [NoPhase EXCEPT !.last = "put", !.key = k]
    /\ UNCHANGED <<buildVars, viewVars, memoVars, reportVars, payload, extracted, cache_alive>>

\* put_ticket(k, d): the maps are updated and both files are written.
PutTicketCall ==
    \E k \in CacheKeys, d \in TicketPayloads :
        /\ PutInMemory(k, d, "none")
        /\ tickets_file' = JsonFile(DumpTickets(mem_tickets'))
        /\ metadata_file' = JsonFile(DumpMetadata(mem_metadata'))

\* get_ticket(k)
GetTicket(m, k) == IF k \in DOMAIN m THEN <<m[k]>> ELSE <<>>

GetTicketCall ==
    /\ cache_alive = "live"
    /\ \E k \in CacheKeys :
        cache_result' = [NoCacheCall EXCEPT !.op = "get", !.key = k,
                                           !.value = GetTicket(mem_tickets, k)]
    /\ UNCHANGED <<buildVars, viewVars, memoVars, reportVars, payload, extracted, tickets_file,
                   metadata_file, cache_alive, mem_tickets, mem_metadata, completed, phase>>

\* A comparison that also holds for equal instants.
LaterOrSame(current, cached) == current.t >= cached.t

\* current_updated > cached_updated, for two datetimes that can be compared.
Later(current, cached) == current.t > cached.t

\* is_ticket_stale(k, current): fromisoformat raises ValueError for a string
\* that is no timestamp, the comparison raises TypeError when only one of
\* the two datetimes carries an offset; both are caught and give True.
IsTicketStale(tickets, metadata, k, current) ==
    IF k \notin DOMAIN tickets \/ k \notin DOMAIN metadata THEN TRUE
    ELSE LET cached == metadata[k].last_updated IN
         IF cached.kind = "none" THEN TRUE
         ELSE IF cached.kind = "bad" THEN TRUE
         ELSE IF cached.aware # current.aware THEN TRUE
         ELSE Later(current, cached)

IsTicketStaleCall ==
    /\ cache_alive = "live"
    /\ \E k \in CacheKeys, cur \in CurrentValues :
        cache_result' = [NoCacheCall EXCEPT
                            !.op = "stale", !.key = k, !.current = cur,
                            !.value = <<IsTicketStale(mem_tickets, mem_metadata, k, cur)>>]
    /\ UNCHANGED <<buildVars, viewVars, memoVars, reportVars, payload, extracted, tickets_file,
                   metadata_file, cache_alive, mem_tickets, mem_metadata, completed, phase>>

\* An unlink that leaves the file where it is.
UnlinkedKept(file) == file

\* "if file.exists(): file.unlink()"
Unlinked(file) == MissingFile

\* The part of clear_cache that all its outcomes share.
ClearInMemory(fault) ==
    /\ cache_alive = "live"
    /\ mem_tickets' = EmptyMap
    /\ mem_metadata' = EmptyMap
    /\ cache_result' = [NoCacheCall EXCEPT !.op = "clear", !.fault = fault]
    /\ completed' = EmptyMap
    /\ phase' = [NoPhase EXCEPT !.last = "clear", !.held = Cardinality(DOMAIN mem_tickets)]
    /\ UNCHANGED <<buildVars, viewVars, memoVars, reportVars, payload, extracted, cache_alive>>

\* clear_cache(): the maps are emptied and both files are removed.
ClearCacheFilesCall ==
    /\ ClearInMemory("none")
    /\ tickets_file' = Unlinked(tickets_file)
    /\ metadata_file' = Unlinked(metadata_file)

CacheInit ==
    /\ OthersIdle
    /\ payload = NoPayload
    /\ extracted = NotCalled
    /\ CacheIdle

CacheNext ==
    \/ NewInstance
    \/ PutTicketCall
    \/ GetTicketCall
    \/ IsTicketStaleCall
    \/ ClearCacheFilesCall

SpecCache == CacheInit /\ [][CacheNext]_vars

\* ------------------------------------------------------------ interrupts
\* The points of put_ticket at which the run can stop: after the maps are
\* updated, after open(tickets_file, "w") emptied the file or while json.dump
\* writes it, after the tickets file is closed, and after
\* open(metadata_file, "w") or while json.dump writes that file.
InterruptPoints == {"memory", "tickets_write", "tickets_written", "metadata_write"}

TicketsFileAt(point, now, new) ==
    IF point = "memory" THEN now
    ELSE IF point = "tickets_write" THEN CorruptFile
    ELSE new

MetadataFileAt(point, now) ==
    IF point = "metadata_write" THEN CorruptFile ELSE now

\* The run ends: the instance and its maps are gone, the files stay.
RunEnds(k) ==
    /\ cache_alive' = "none"
    /\ mem_tickets' = EmptyMap
    /\ mem_metadata' = EmptyMap
    /\ phase' = [NoPhase EXCEPT !.last = "crash", !.key = k]
    /\ UNCHANGED <<buildVars, viewVars, memoVars, reportVars, payload, extracted, completed>>

\* The run is interrupted inside put_ticket(k, d); _save_cache catches
\* OSError only, so the interrupt leaves the files as they are at that point.
PutTicketInterrupted ==
    /\ cache_alive = "live"
    /\ \E k \in CacheKeys, d \in JsonPayloads, point \in InterruptPoints :
        /\ tickets_file' = TicketsFileAt(point, tickets_file,
                               JsonFile(DumpTickets(PutInTickets(mem_tickets, k, d))))
        /\ metadata_file' = MetadataFileAt(point, metadata_file)
        /\ cache_result' = [NoCacheCall EXCEPT !.op = "interrupt", !.key = k,
                                               !.value = <<d>>, !.fault = point]
        /\ RunEnds(k)

\* The run is interrupted between two calls on the cache.
Interrupted ==
    /\ cache_alive = "live"
    /\ cache_result' = [NoCacheCall EXCEPT !.op = "interrupt"]
    /\ UNCHANGED <<tickets_file, metadata_file>>
    /\ RunEnds(0)

CrashNext ==
    \/ NewInstance
    \/ PutTicketCall
    \/ GetTicketCall
    \/ PutTicketInterrupted
    \/ Interrupted

SpecCrash == CacheInit /\ [][CrashNext]_vars

\* ------------------------------------------------------------ I/O failures
\* The directory cannot be created: mkdir (line 25) is outside every try.
NewInstanceMkdirFails ==
    /\ cache_alive' = "raised"
    /\ mem_tickets' = EmptyMap
    /\ mem_metadata' = EmptyMap
    /\ cache_result' = [NoCacheCall EXCEPT !.op = "new", !.fault = "mkdir"]
    /\ phase' = Freshened
    /\ UNCHANGED <<buildVars, viewVars, memoVars, reportVars, payload, extracted, tickets_file,
                   metadata_file, completed>>

\* A TicketCache is created and the read of one file or of both fails with
\* OSError.
NewInstanceReadFails ==
    \E tickets_fail, metadata_fail \in BOOLEAN :
        /\ (tickets_fail /\ tickets_file.kind # "missing")
               \/ (metadata_fail /\ metadata_file.kind # "missing")
        /\ Construct(tickets_fail, metadata_fail, "read")

\* The points of _save_cache at which a write can fail with OSError: opening
\* or writing the tickets file, opening or writing the metadata file.
WriteFailPoints == {"tickets_open", "tickets_write", "metadata_open", "metadata_write"}

\* put_ticket(k, d) whose _save_cache meets OSError: the warning is printed
\* and the call returns.
PutTicketWriteFails ==
    \E k \in CacheKeys, d \in JsonPayloads, point \in WriteFailPoints :
        /\ PutInMemory(k, d, point)
        /\ tickets_file' =
               IF point = "tickets_open" THEN tickets_file
               ELSE IF point = "tickets_write" THEN CorruptFile
               ELSE JsonFile(DumpTickets(mem_tickets'))
        /\ metadata_file' = IF point = "metadata_write" THEN CorruptFile ELSE metadata_file

\* clear_cache() whose unlink of the tickets file, or of the metadata file,
\* meets OSError: the warning is printed and the call returns.
ClearCacheUnlinkFails ==
    \E point \in {"tickets_unlink", "metadata_unlink"} :
        /\ ClearInMemory(point)
        /\ IF point = "tickets_unlink"
             THEN /\ tickets_file.kind # "missing"
                  /\ UNCHANGED <<tickets_file, metadata_file>>
             ELSE /\ metadata_file.kind # "missing"
                  /\ tickets_file' = Unlinked(tickets_file)
                  /\ UNCHANGED metadata_file

\* The directory holds any files when the program starts.
FoundFiles == {MissingFile, CorruptFile, BinaryFile}

CacheFaultsInit ==
    /\ OthersIdle
    /\ payload = NoPayload
    /\ extracted = NotCalled
    /\ tickets_file \in FoundFiles
    /\ metadata_file \in FoundFiles
    /\ cache_alive = "none"
    /\ mem_tickets = EmptyMap
    /\ mem_metadata = EmptyMap
    /\ cache_result = NoCacheCall
    /\ completed = EmptyMap
    /\ phase = NoPhase

CacheFaultsNext ==
    \/ NewInstance
    \/ NewInstanceMkdirFails
    \/ NewInstanceReadFails
    \/ PutTicketWriteFails
    \/ ClearCacheFilesCall
    \/ ClearCacheUnlinkFails

SpecCacheFaults == CacheFaultsInit /\ [][CacheFaultsNext]_vars

\* ------------------------------------------- _generate_contributors_data
\* contributor_summary.get(ticket_key, set())
SummaryOf(summary, k) == IF k \in DOMAIN summary THEN summary[k] ELSE {}

\* A filter that lets every display item through.
IsAnyLevel(item) == TRUE

\* if item["level"] == 0
IsTopLevel(item) == item.level = 0

\* The loop over display_data (lines 106-122): contributor_tickets after the
\* items from position i on, a dict name -> list of keys.
RECURSIVE ContributorTickets(_, _, _, _)
ContributorTickets(D, summary, i, acc) ==
    IF i > Len(D) THEN acc
    ELSE LET names == IF IsTopLevel(D[i]) THEN SummaryOf(summary, D[i].key) ELSE {}
             next == [n \in DOMAIN acc \cup names |->
                         IF n \notin names THEN acc[n]
                         ELSE IF n \in DOMAIN acc THEN Append(acc[n], D[i].key)
                         ELSE <<D[i].key>>]
         IN  ContributorTickets(D, summary, i + 1, next)

\* sorted(tickets, key=lambda x: x["key"]): stable, a key goes behind every
\* key already placed that is not larger.
RECURSIVE InsertByKey(_, _)
InsertByKey(s, k) ==
    IF s = <<>> THEN <<k>>
    ELSE IF k < Head(s) THEN <<k>> \o s
    ELSE <<Head(s)>> \o InsertByKey(Tail(s), k)

RECURSIVE SortedByKey(_)
SortedByKey(s) ==
    IF s = <<>> THEN <<>> ELSE InsertByKey(SortedByKey(SubSeq(s, 1, Len(s) - 1)), s[Len(s)])

\* The loop over sorted(contributor_tickets.keys()) (lines 125-134).
RECURSIVE ContributorsList(_, _)
ContributorsList(ct, todo) ==
    IF todo = {} THEN <<>>
    ELSE LET n == CHOOSE x \in todo : \A y \in todo : x <= y IN
         <<[name |-> n, ticket_count |-> Len(ct[n]), tickets |-> SortedByKey(ct[n])]>>
             \o ContributorsList(ct, todo \ {n})

\* _generate_contributors_data
GenerateContributorsData(D, summary) ==
    LET ct == ContributorTickets(D, summary, 1, EmptyMap) IN ContributorsList(ct, DOMAIN ct)

\* generate_html hands display_data and contributor_summary over (lines 38-40).
GenerateContributorsDataCall ==
    /\ ~contributors_data.called
    /\ contributors_data' = Returned(GenerateContributorsData(report_input.display_data,
                                                              report_input.contributor_summary))
    /\ UNCHANGED <<buildVars, viewVars, memoVars, payload, extracted, tickets_file,
                   metadata_file, cache_alive, mem_tickets, mem_metadata, cache_result,
                   completed, phase, report_input, child_input, child_output, cli_env, cli_pc,
                   exit_code>>

\* The lists get_hierarchy_for_display can return: no key twice, the first
\* item at level 0, and no item more than one level below the item before it.
DisplayLists ==
    {D \in UNION {[1..n -> [key : Keys, level : 0..(NKeys - 1)]] : n \in 0..NKeys} :
        /\ \A i, j \in 1..Len(D) : i # j => D[i].key # D[j].key
        /\ \A i \in 1..Len(D) : D[i].level <= (IF i = 1 THEN 0 ELSE D[i - 1].level + 1)}

\* The maps get_contributor_summary can return.
SummaryMaps == UNION {[S -> SUBSET People] : S \in SUBSET Keys}

ReportInit ==
    /\ BuildInit({})
    /\ client_has_jira
    /\ py_hash = [c \in Createds |-> 0]
    /\ MemoInit(EmptyMap, [k \in Keys |-> <<>>])
    /\ payload = NoPayload
    /\ extracted = NotCalled
    /\ CacheIdle
    /\ ChildIdle
    /\ CliIdle
    /\ report_input \in [display_data : DisplayLists, contributor_summary : SummaryMaps]
    /\ contributors_data = NotCalled

ReportNext == GenerateContributorsDataCall

SpecReport == ReportInit /\ [][ReportNext]_vars

\* ------------------------------------------- children by issue-type name
\* An issue-type name is a sequence of fragments, each in the letter case the
\* tracker spells it with; the empty sequence is a missing or empty name.
NameFragments == {"Epic", "EPIC", "Feature", "initiative", "THEME", "Task"}
TypeNames == SeqsUpTo(NameFragments, MaxFragments)

\* A lower() that leaves the letters as they are.
LowerCaseKept(f) == f

\* str.lower() on one fragment.
LowerCase(f) ==
    CASE f = "Epic" -> "epic"
      [] f = "EPIC" -> "epic"
      [] f = "Feature" -> "feature"
      [] f = "THEME" -> "theme"
      [] OTHER -> f

\* issue_type.get("name", "").lower()
Lower(name) == [i \in 1..Len(name) |-> LowerCase(name[i])]

\* word in issue_type_name
Contains(name, word) == \E i \in 1..Len(name) : name[i] = word

\* _get_child_ticket_keys on ticket t, with the search methods it called:
\* [keys, searches].
ChildTicketKeys(t) ==
    LET issue_type_name == Lower(t.name) IN
    IF Contains(issue_type_name, "epic")
    THEN [keys |-> t.subtasks \o SearchTicketsWithEpicLink(t.has_jira, t.epic),
          searches |-> <<"Epic Link">>]
    ELSE IF \E parent_type \in {"feature", "initiative", "theme"} :
                Contains(issue_type_name, parent_type)
    THEN [keys |-> t.subtasks \o SearchTicketsWithParentLink(t.has_jira, t.parent),
          searches |-> <<"Parent Link">>]
    ELSE [keys |-> t.subtasks, searches |-> <<>>]

\* _process_ticket_recursive derives the children of the ticket it stored
\* (line 105).
GetChildTicketKeysCall ==
    /\ ~child_output.called
    /\ child_output' = Returned(ChildTicketKeys(child_input))
    /\ UNCHANGED <<buildVars, viewVars, memoVars, payload, extracted, tickets_file,
                   metadata_file, cache_alive, mem_tickets, mem_metadata, cache_result,
                   completed, phase, report_input, contributors_data, child_input, cli_env,
                   cli_pc, exit_code>>

\* The tickets: any type name, subtasks, a client with or without the .jira
\* attribute, and what each of the two searches would answer.
ChildInit ==
    /\ BuildInit({})
    /\ client_has_jira
    /\ py_hash = [c \in Createds |-> 0]
    /\ MemoInit(EmptyMap, [k \in Keys |-> <<>>])
    /\ payload = NoPayload
    /\ extracted = NotCalled
    /\ CacheIdle
    /\ CliIdle
    /\ report_input = NoReportInput
    /\ contributors_data = NotCalled
    /\ child_input \in [name : TypeNames, subtasks : NoDupSeqs(Keys, MaxHits),
                        has_jira : BOOLEAN, epic : JqlAnswers(MaxHits),
                        parent : JqlAnswers(MaxHits)]
    /\ child_output = NotCalled

ChildNext == GetChildTicketKeysCall

SpecChild == ChildInit /\ [][ChildNext]_vars

\* ------------------------------------------------- the generate command
\* The calls of main (cli.py:107-163) that can fail, in order.
MainStatements == <<"client", "cache", "clear", "stats", "hierarchy", "build", "summary",
                    "unique", "display", "html", "final_stats">>

\* "if clear_cache:" and "if verbose:"
Skipped(stmt, env) ==
    \/ stmt = "clear" /\ ~env.clear_cache
    \/ stmt \in {"stats", "final_stats"} /\ ~env.verbose

\* Whether the statement raises: a call with more positional arguments than
\* the constructor takes raises TypeError; JiraClient raises ValueError
\* without a token, TicketCache when the directory cannot be made,
\* build_hierarchy when the root search fails, generate_html when the
\* output file cannot be written.
Raises(stmt, env) ==
    \/ stmt = "client" /\ (JiraClientCallArgs > JiraClientParams \/ ~env.token)
    \/ stmt = "cache" /\ ~env.cache_dir_ok
    \/ stmt = "hierarchy" /\ TicketHierarchyCallArgs > TicketHierarchyParams
    \/ stmt = "build" /\ ~env.tracker_up
    \/ stmt = "html" /\ ~env.output_ok

\* The statement that runs after position i, "return" after the last one.
RECURSIVE StatementAfter(_, _)
StatementAfter(i, env) ==
    IF i >= Len(MainStatements) THEN "return"
    ELSE IF Skipped(MainStatements[i + 1], env) THEN StatementAfter(i + 1, env)
    ELSE MainStatements[i + 1]

PositionOf(stmt) == CHOOSE i \in 1..Len(MainStatements) : MainStatements[i] = stmt

\* One statement of main runs: "except Exception" exits with 1 (lines
\* 168-174); after the last statement main returns and the process exits
\* with 0.
MainStep ==
    /\ cli_pc.ended = "no"
    /\ LET stmt == cli_pc.at
           after == StatementAfter(PositionOf(stmt), cli_env)
       IN  IF Raises(stmt, cli_env)
           THEN cli_pc' = [at |-> stmt, ended |-> "raised"] /\ exit_code' = <<1>>
           ELSE IF after = "return"
           THEN cli_pc' = [at |-> stmt, ended |-> "returned"] /\ exit_code' = <<0>>
           ELSE cli_pc' = [at |-> after, ended |-> "no"] /\ exit_code' = <<>>
    /\ UNCHANGED <<buildVars, viewVars, memoVars, payload, extracted, tickets_file,
                   metadata_file, cache_alive, mem_tickets, mem_metadata, cache_result,
                   completed, phase, report_input, contributors_data, child_input,
                   child_output, cli_env>>

\* The user interrupts the run: "except KeyboardInterrupt" exits with 1
\* (lines 165-167).
MainInterrupted ==
    /\ cli_pc.ended = "no"
    /\ cli_pc' = [cli_pc EXCEPT !.ended = "interrupted"]
    /\ exit_code' = <<1>>
    /\ UNCHANGED <<buildVars, viewVars, memoVars, payload, extracted, tickets_file,
                   metadata_file, cache_alive, mem_tickets, mem_metadata, cache_result,
                   completed, phase, report_input, contributors_data, child_input,
                   child_output, cli_env>>

\* The runs of the command: with or without --clear-cache and --verbose,
\* with or without a token, against a tracker that answers or not, with a
\* cache directory and an output file that can be written or not.
CliInit ==
    /\ BuildInit({})
    /\ client_has_jira
    /\ py_hash = [c \in Createds |-> 0]
    /\ MemoInit(EmptyMap, [k \in Keys |-> <<>>])
    /\ payload = NoPayload
    /\ extracted = NotCalled
    /\ CacheIdle
    /\ ChildIdle
    /\ report_input = NoReportInput
    /\ contributors_data = NotCalled
    /\ cli_env \in [clear_cache : BOOLEAN, verbose : BOOLEAN, token : BOOLEAN,
                    cache_dir_ok : BOOLEAN, tracker_up : BOOLEAN, output_ok : BOOLEAN]
    /\ cli_pc = [at |-> "client", ended |-> "no"]
    /\ exit_code = <<>>

CliNext ==
    \/ MainStep
    \/ MainInterrupted

SpecCli == CliInit /\ [][CliNext]_vars

\* ------------------------------------------------------------ C1
\* Progress measure of a build: what is left to do, counting two units per
\* key not yet stored, one per child reference the tracker may still answer,
\* one per remaining loop iteration and per pending return.
RECURSIVE FrameWork(_)
FrameWork(stk) ==
    IF stk = <<>> THEN 0
    ELSE (Len(hierarchy[Head(stk).key]) - Head(stk).i + 2) + FrameWork(Tail(stk))

Variant ==
    2 * (NKeys - Len(all_tickets)) + (MaxLinks - LinksUsed) + FrameWork(stack)
    + Len(pending)
    + (CASE pc = "idle" -> NKeys + 3 [] pc = "run" -> 1 [] OTHER -> 0)

\* A ticket in the flat map is never stored again, and neither its data nor
\* its child list changes afterwards.
StoredIsFinal ==
    \A k \in AllKeys(all_tickets) :
        /\ stores'[k] = stores[k]
        /\ InAllTickets(all_tickets', k)
        /\ TicketOf(all_tickets', k) = TicketOf(all_tickets, k)
        /\ hierarchy'[k] = hierarchy[k]

\* C1: on every finite tracker graph, cycles and self-links included, a build
\* terminates (every step decreases a non-negative measure and a running
\* build can always take a step), each key is stored in the flat map at most
\* once, and meeting a key that is already in the flat map changes nothing
\* about it.
C1_BuildTerminatesInsertOnce ==
    /\ [](\A k \in Keys : stores[k] <= 1)
    /\ [](Variant >= 0)
    /\ [](pc = "run" => ENABLED Next)
    /\ [][Variant' < Variant /\ StoredIsFinal]_vars

\* A finished build that met a two-ticket cycle and a finished build that met
\* a self-link.
C1_Witness ==
    /\ pc = "done"
    /\ \E a, b \in Keys :
        a # b /\ b \in Range(hierarchy[a]) /\ a \in Range(hierarchy[b])

\* ------------------------------------------------------------ C2
\* C2 as stated: get_ticket is issued at most once per key during a build.
C2_FetchedAtMostOnce == \A k \in Keys : fetches[k] <= 1

\* C2 amended: at most one get_ticket call per key succeeds, a key is in the
\* flat map exactly when it was stored once, and a key is fetched more than
\* once only when its earlier fetches failed.
C2_OneSuccessfulFetch ==
    \A k \in Keys :
        /\ fetches[k] - failures[k] <= 1
        /\ fetches[k] - failures[k] <= stores[k]
        /\ (fetches[k] > 1 => failures[k] >= fetches[k] - 1)

\* A ticket reachable through two parents whose first fetch failed and whose
\* second fetch succeeded.
C2_Witness ==
    /\ pc = "done"
    /\ \E k \in Keys :
        fetches[k] = 2 /\ failures[k] = 1 /\ InAllTickets(all_tickets, k)

\* ------------------------------------------------------------ C3
ChildKeysOfHierarchy == UNION {Range(hierarchy[k]) : k \in Keys}

\* C3 as stated: after a build every key of a child list is in the flat map.
C3_ChildrenInFlatMap ==
    pc = "done" => ChildKeysOfHierarchy \subseteq AllKeys(all_tickets)

\* C3 amended: after a build every key of a child list is in the flat map or
\* is a key whose fetch failed.
C3_ChildrenInFlatMapOrFailed ==
    pc = "done" =>
        \A c \in ChildKeysOfHierarchy : InAllTickets(all_tickets, c) \/ failures[c] > 0

\* A finished build with one child that could not be fetched and another
\* child that was.
C3_Witness ==
    /\ pc = "done"
    /\ \E c \in ChildKeysOfHierarchy : ~InAllTickets(all_tickets, c) /\ failures[c] > 0
    /\ \E c \in ChildKeysOfHierarchy : InAllTickets(all_tickets, c) /\ fetches[c] = 1

\* ------------------------------------------------------------ C4

\* C4: no child list of the hierarchy map holds a key twice.
C4_ChildListsDistinct == \A k \in Keys : NoDuplicateKeys(hierarchy[k])

\* ------------------------------------------------------------ C5
DisplayKeys(D) == [i \in 1..Len(D) |-> D[i].key]

\* Positions of the emitted items that list the item at position i as a child.
EmittedParents(D, i) == {j \in 1..Len(D) : D[i].key \in Range(hierarchy[D[j].key])}

\* Positions before i that are one level up; the nearest one is the item
\* under which the item at position i is shown.
OneLevelUpBefore(D, i) == {j \in 1..(i - 1) : D[j].level = D[i].level - 1}
ShownUnder(D, i) == SetMax(OneLevelUpBefore(D, i))

\* The item at position j is still being walked when position p is emitted.
StillOpen(D, j, p) == j < p /\ \A m \in (j + 1)..p : D[m].level > D[j].level

\* C5 as stated: no key twice in the display list, and a ticket with emitted
\* parents is shown directly under the parent that the walk reached first.
C5_ShownUnderFirstParentReached ==
    display_data.called =>
        LET D == display_data.value IN
        /\ NoDuplicateKeys(DisplayKeys(D))
        /\ \A i \in 1..Len(D) :
            EmittedParents(D, i) \ {i} # {} =>
                /\ OneLevelUpBefore(D, i) # {}
                /\ ShownUnder(D, i) = SetMin(EmittedParents(D, i) \ {i})

\* C5 amended: no key twice in the display list; a ticket with emitted
\* parents is shown once, directly under one of its parents (one level
\* deeper), and every parent of it that was emitted before that one is an
\* ancestor still being walked at that point (the walk had not yet come to
\* the ticket in the earlier parent's own child loop).
C5_ShownOnceUnderAParent ==
    display_data.called =>
        LET D == display_data.value IN
        /\ NoDuplicateKeys(DisplayKeys(D))
        /\ \A i \in 1..Len(D) :
            /\ D[i].level = 0 => EmittedParents(D, i) \ {i} = {}
            /\ D[i].level > 0 =>
                /\ OneLevelUpBefore(D, i) # {}
                /\ ShownUnder(D, i) \in EmittedParents(D, i)
                /\ \A j \in EmittedParents(D, i) :
                    j < ShownUnder(D, i) => StillOpen(D, j, ShownUnder(D, i))

\* A display list with a ticket that has two emitted parents, one of them
\* reached before the parent it is shown under, and another display list
\* where a ticket with two parents is shown under the first one.
C5_Witness ==
    /\ display_data.called
    /\ LET D == display_data.value IN
       \E i \in 1..Len(D) :
           /\ Cardinality(EmittedParents(D, i) \ {i}) >= 2
           /\ D[i].level > 0

\* ------------------------------------------------------------ C6
\* C6: in the order get_sorted_tickets_by_rank returns, every ticket without
\* a rank field comes after every ticket with a parseable rank.
C6_RanklessAfterRanked ==
    sorted_keys.called =>
        LET S == sorted_keys.value IN
        \A a, b \in 1..Len(S) :
            /\ TicketOf(all_tickets, S[a]).rank = NoRank
            /\ TicketOf(all_tickets, S[b]).rank # NoRank
            => b < a

\* ------------------------------------------------------------ C7
\* The keys reachable from the keys of S through the child lists of h, S
\* included.
RECURSIVE ReachableFrom(_, _)
ReachableFrom(h, S) ==
    LET T == S \cup UNION {Range(h[k]) : k \in S} IN
    IF T = S THEN S ELSE ReachableFrom(h, T)

\* No ticket is its own descendant.
Acyclic(h) == \A k \in DOMAIN h : \A c \in Range(h[k]) : k \notin ReachableFrom(h, {c})

\* The names extracted from the tickets of the flat map t reachable from k.
ReachUnion(t, h, k) == UNION {t[x].people : x \in ReachableFrom(h, {k}) \cap DOMAIN t}

\* C7: the first aggregation on a new extractor, for a key k and an acyclic
\* hierarchy map, returns the union of the names extracted from k and from
\* every ticket reachable from k; tickets absent from the flat map add
\* nothing, and descendants reached along two paths do not change the set.
C7_FreshAggregationIsReachUnion ==
    (result.op = "all" /\ result.prev = "none" /\ Acyclic(in_hierarchy))
        => /\ ~result.raised
           /\ result.value = ReachUnion(in_tickets, in_hierarchy, result.key)

\* A first aggregation for a ticket with two children, one of them the child
\* of the other as well, whose names only come from below.
C7_Witness ==
    /\ result.op = "all" /\ result.prev = "none" /\ ~result.raised
    /\ Acyclic(in_hierarchy)
    /\ Len(in_hierarchy[result.key]) = 2
    /\ \E b, c \in Range(in_hierarchy[result.key]) :
        /\ b # c
        /\ c \in Range(in_hierarchy[b])
        /\ c \in DOMAIN in_tickets
        /\ in_tickets[c].people # {}
        /\ b \notin DOMAIN in_tickets
    /\ result.key \in DOMAIN in_tickets
    /\ in_tickets[result.key].people # result.value
    /\ Cardinality(result.value) = NPeople

\* ------------------------------------------------------------ C8
\* C8 as stated: the summary has exactly the keys of the flat map, and the
\* entry of a ticket without children is the set of names extracted from it.
C8_SummaryKeysAndLeafEntries ==
    (result.op = "summary" /\ ~result.raised /\ result.at = mutations)
        => /\ DOMAIN result.summary = DOMAIN in_tickets
           /\ \A k \in DOMAIN in_tickets :
                in_hierarchy[k] = <<>> => result.summary[k] = in_tickets[k].people

\* C8, amended: the summary has exactly the keys of the flat map; the entry
\* of a ticket without children is the set of names extracted from it when
\* the memo holds nothing for its key as the call starts, and the memoized
\* set otherwise.
C8_SummaryKeysAndUnmemoizedLeafEntries ==
    [][(result'.op = "summary" /\ ~result'.raised /\ mutations' = mutations)
        => /\ DOMAIN result'.summary = DOMAIN in_tickets
           /\ \A k \in DOMAIN in_tickets :
                in_hierarchy[k] = <<>> =>
                    result'.summary[k] = IF k \in DOMAIN first_result
                                         THEN first_result[k]
                                         ELSE in_tickets[k].people]_vars

\* A summary with an entry for a parent and another one for its child, a
\* ticket without children whose entry holds its own names.
C8_Witness ==
    /\ result.op = "summary" /\ ~result.raised /\ result.at = mutations
    /\ \E p, k \in DOMAIN result.summary :
        /\ k \in Range(in_hierarchy[p])
        /\ in_hierarchy[k] = <<>>
        /\ in_tickets[k].people # {}
        /\ result.summary[k] = in_tickets[k].people
        /\ result.summary[p] # result.summary[k]

\* ------------------------------------------------------------ C9
\* C9: once an aggregation has been computed for a key, every later
\* aggregation for that key, asked for alone or inside a summary, returns
\* that first set until clear_cache runs, whatever the maps passed in are.
C9_MemoReturnsFirstResult ==
    [][\A k \in DOMAIN first_result :
        /\ (result'.op = "all" /\ result'.key = k /\ mutations' = mutations)
             => (~result'.raised /\ result'.value = first_result[k])
        /\ (result'.op = "summary" /\ ~result'.raised /\ mutations' = mutations
                /\ k \in DOMAIN result'.summary)
             => result'.summary[k] = first_result[k]]_vars

\* An aggregation asked for again after the caller changed the maps returns
\* the first set, which is not what the changed maps give.
C9_Witness ==
    /\ result.op = "all" /\ ~result.raised
    /\ result.prev # "clear"
    /\ result.at = mutations /\ mutations > 0
    /\ Acyclic(in_hierarchy)
    /\ result.key \in DOMAIN first_result
    /\ result.value = first_result[result.key]
    /\ result.value # ReachUnion(in_tickets, in_hierarchy, result.key)

\* ------------------------------------------------------------ C10
\* C10: clear_cache leaves the memo empty, and the aggregation that follows
\* it is computed from the maps of that call: for an acyclic hierarchy map
\* it is the union over the tickets reachable now.
C10_ClearThenRecomputed ==
    /\ result.op = "clear" => contributor_cache = EmptyMap
    /\ (result.op = "all" /\ result.prev = "clear" /\ result.at = mutations
            /\ Acyclic(in_hierarchy))
        => /\ ~result.raised
           /\ result.value = ReachUnion(in_tickets, in_hierarchy, result.key)

\* An aggregation over a ticket and a descendant, asked for right after a
\* clear_cache that followed a change of the maps.
C10_Witness ==
    /\ result.op = "all" /\ result.prev = "clear" /\ ~result.raised
    /\ result.at = mutations /\ mutations > 0
    /\ Acyclic(in_hierarchy)
    /\ in_hierarchy[result.key] # <<>>
    /\ result.value # {}
    /\ result.key \in DOMAIN in_tickets
    /\ result.value # in_tickets[result.key].people

\* ------------------------------------------------------------ C16
\* C16: a failing child fetch or a failing child search never ends the
\* build with an exception, and once the build has returned every child of a
\* stored ticket is in the flat map unless each fetch of it failed: the
\* siblings of a failed child, and what is below them, are still processed.
C16_FailedBranchSkippedOnly ==
    /\ [][pc = "run" => pc' \in {"run", "done"}]_vars
    /\ [](pc = "done" =>
            \A p \in AllKeys(all_tickets) : \A c \in Range(hierarchy[p]) :
                \/ InAllTickets(all_tickets, c)
                \/ (fetches[c] >= 1 /\ failures[c] = fetches[c]))

\* A finished build on a client whose link searches raise: an epic or a
\* feature whose first child could not be fetched and whose later child is
\* in the flat map.
C16_Witness ==
    /\ pc = "done"
    /\ ~client_has_jira
    /\ \E p \in AllKeys(all_tickets) :
        /\ TicketOf(all_tickets, p).itype \in {"epic", "feature"}
        /\ Len(hierarchy[p]) = 2
        /\ ~InAllTickets(all_tickets, hierarchy[p][1])
        /\ failures[hierarchy[p][1]] >= 1
        /\ InAllTickets(all_tickets, hierarchy[p][2])
        /\ fetches[hierarchy[p][2]] = 1

\* ------------------------------------------------------------ C17
\* C17: when the fetch of the starting ticket of build_hierarchy_from_ticket
\* fails, the method raises and nothing is stored.
C17_StartFetchFailureRaises ==
    [][(pc = "idle" /\ \E k \in Keys : failures'[k] > failures[k])
        => (pc' = "raised" /\ all_tickets' = all_tickets /\ root_tickets' = root_tickets)]_vars

\* A build from a single ticket that ended with the fetch failure.
C17_Witness ==
    /\ pc = "raised"
    /\ all_tickets = <<>>
    /\ \E k \in Keys : fetches[k] = 1 /\ failures[k] = 1

\* ------------------------------------------------------------ C18
\* C18: every root designated by build_hierarchy (its first root comes with
\* the search answer and is never fetched) is an unresolved ticket.
C18_RootsUnresolved ==
    (root_tickets # <<>> /\ fetches[root_tickets[1]] = 0)
        => \A i \in 1..Len(root_tickets) :
                InAllTickets(all_tickets, root_tickets[i])
                    => ~TicketOf(all_tickets, root_tickets[i]).resolved

\* ------------------------------------------------------------ C11
\* The objects a field value holds: itself, or the objects of its list.
PersonsIn(v) ==
    IF v.kind = "dict" THEN {v}
    ELSE IF v.kind = "list" THEN {x \in Range(v.items) : x.kind = "dict"}
    ELSE {}

\* The display names found in the assignee, the reporter, the contributors
\* field and the custom fields.
NamesFound(f) ==
    {n \in People :
        \E v \in {f.assignee, f.reporter, f.contributors} \cup Range(f.customs) :
            \E x \in PersonsIn(v) : x.name = n}

\* C11: extract_contributors_from_ticket returns exactly the display names
\* found in the assignee, the reporter, the contributors field and every
\* customfield_* field, each name once.
C11_ExactlyTheNamesFound ==
    extracted.called =>
        /\ Range(extracted.value) = NamesFound(payload)
        /\ NoDuplicateKeys(extracted.value)

\* A ticket whose assignee is also its reporter and a member of a custom
\* list field, with another person in the contributors list and a creator
\* that is not extracted.
C11_Witness ==
    /\ extracted.called
    /\ payload.assignee = Person(1) /\ payload.reporter = Person(1)
    /\ payload.customs = <<ListOf(<<Text, Person(1)>>)>>
    /\ payload.contributors = ListOf(<<Person(2), Person(NoName)>>)
    /\ payload.creator = Person(1)
    /\ extracted.value = <<1, 2>>


\* ------------------------------------------------------------ C12
\* C12: get_ticket(k) returns data equal to what the last put_ticket(k, d)
\* stored, d being JSON data, on the instance that stored it and on an
\* instance created later on the same directory, and it returns None for a
\* key that was not put.
C12_PutThenGetRoundTrip ==
    cache_result.op = "get" =>
        LET k == cache_result.key IN
        /\ (k \in DOMAIN completed /\ JsonData(completed[k]))
               => cache_result.value = <<completed[k]>>
        /\ k \notin DOMAIN completed => cache_result.value = <<>>

\* A fresh instance returns the payload, timestamp included, that the last
\* put_ticket of an earlier instance stored.
C12_Witness ==
    /\ cache_result.op = "get"
    /\ phase.last = "put"
    /\ phase.fresh
    /\ cache_result.key = phase.key
    /\ phase.key \in DOMAIN completed
    /\ completed[phase.key].updated.kind = "time"
    /\ cache_result.value = <<completed[phase.key]>>

C15_ClearLeavesNothing ==
    /\ cache_result.op = "clear" =>
           /\ mem_tickets = EmptyMap
           /\ mem_metadata = EmptyMap
           /\ tickets_file.kind = "missing"
           /\ metadata_file.kind = "missing"
    /\ (cache_result.op = "new" /\ phase.last = "clear") => mem_tickets = EmptyMap

\* An instance created after a clear_cache that found every key cached.
C15_Witness ==
    /\ cache_result.op = "new"
    /\ phase.last = "clear"
    /\ phase.held = NCacheKeys
    /\ mem_tickets = EmptyMap
    /\ tickets_file.kind = "missing"

\* ------------------------------------------------------------ C19
\* C19: an instance created after an interrupt, on the same directory,
\* holds every ticket whose put_ticket had completed before the interrupt.
C19_CompletedPutsSurviveInterrupt ==
    (cache_result.op = "new" /\ phase.last = "crash") =>
        /\ cache_alive = "live"
        /\ \A k \in DOMAIN completed : k \in DOMAIN mem_tickets

\* ------------------------------------------------------------ C13
\* C13: creating a TicketCache over a directory whose tickets file or
\* metadata file is missing or has corrupt content does not raise, and the
\* map read from such a file is empty.
C13_MissingOrCorruptLoadsEmpty ==
    (cache_result.op = "new" /\ cache_result.fault = "none") =>
        /\ cache_alive = "live"
        /\ tickets_file.kind # "json" => mem_tickets = EmptyMap
        /\ metadata_file.kind # "json" => mem_metadata = EmptyMap

\* ------------------------------------------------------------ C20
\* C20: an operation that meets a cache I/O failure returns normally: the
\* constructor with the map of the unreadable file empty, put_ticket with
\* the ticket in memory, clear_cache with both maps empty.
C20_NoIoFailureIsFatal ==
    cache_result.fault # "none" =>
        /\ cache_alive = "live"
        /\ cache_result.op = "put" =>
               GetTicket(mem_tickets, cache_result.key) = cache_result.value
        /\ cache_result.op = "clear" =>
               mem_tickets = EmptyMap /\ mem_metadata = EmptyMap

\* ------------------------------------------------------------ C21
\* Keys listed under name n in the contributors view data L.
ListedUnder(L, n) == UNION {Range(L[e].tickets) : e \in {x \in 1..Len(L) : L[x].name = n}}

\* C21: a ticket is listed under a contributor exactly when it is a level-0
\* display item whose contributor-summary entry holds the contributor; no
\* ticket shown below level 0 is listed, and every contributor of the view
\* has a level-0 ticket whose entry holds them.
C21_ContributorsOfTopLevelTickets ==
    contributors_data.called =>
        LET D == report_input.display_data
            summary == report_input.contributor_summary
            L == contributors_data.value
            top == {D[i].key : i \in {x \in 1..Len(D) : D[x].level = 0}}
            below == {D[i].key : i \in {x \in 1..Len(D) : D[x].level > 0}}
        IN  /\ \A n \in People, k \in Keys :
                k \in ListedUnder(L, n) <=> (k \in top /\ n \in SummaryOf(summary, k))
            /\ \A n \in People : ListedUnder(L, n) \cap below = {}
            /\ \A e \in 1..Len(L) :
                \E k \in top : L[e].name \in SummaryOf(summary, k)

\* A contributor listed with two top-level tickets, who is also in the
\* summary entry of a ticket shown below level 0.
C21_Witness ==
    /\ contributors_data.called
    /\ LET D == report_input.display_data
           L == contributors_data.value
       IN  \E e \in 1..Len(L) :
               /\ L[e].ticket_count = 2
               /\ \E i \in 1..Len(D) :
                      /\ D[i].level > 0
                      /\ L[e].name \in SummaryOf(report_input.contributor_summary, D[i].key)

\* ------------------------------------------------------------ C22
\* C22: the generate command exits with 0 when it runs uninterrupted with a
\* token, against a tracker that answers, with a cache directory and an
\* output file it can write; it exits with 1 when anything fails or the user
\* interrupts.
C22_ExitZeroExactlyOnSuccess ==
    cli_pc.ended # "no" =>
        LET working == /\ cli_env.token
                       /\ cli_env.tracker_up
                       /\ cli_env.cache_dir_ok
                       /\ cli_env.output_ok
        IN  IF working /\ cli_pc.ended # "interrupted"
            THEN exit_code = <<0>>
            ELSE exit_code = <<1>>

\* ------------------------------------------------------------ C23
\* The name holds one of the spellings S.
Says(name, S) == \E i \in 1..Len(name) : name[i] \in S

\* The keys of s, each at its first occurrence.
RECURSIVE FirstOccurrences(_)
FirstOccurrences(s) ==
    IF s = <<>> THEN <<>>
    ELSE LET r == FirstOccurrences(SubSeq(s, 1, Len(s) - 1)) IN
         IF s[Len(s)] \in Range(r) THEN r ELSE Append(r, s[Len(s)])

\* The keys a search returns: those of the issues the tracker answered,
\* none when the query failed or could not be made.
Hits(has_jira, resp) == IF has_jira /\ resp.ok THEN FirstOccurrences(resp.issues) ELSE <<>>

\* C23: the derived children are the subtasks, followed by the Epic Link
\* hits when the type name says "epic" in any letter case, otherwise by the
\* Parent Link hits when it says "feature", "initiative" or "theme", and by
\* nothing for any other name; at most one search is made, the Epic Link one
\* when the name says both.
C23_SubtasksThenOneSearchByType ==
    child_output.called =>
        LET t == child_input
            out == child_output.value
            epic == Says(t.name, {"Epic", "EPIC"})
            parent == Says(t.name, {"Feature", "initiative", "THEME"})
        IN  /\ Len(out.searches) <= 1
            /\ epic => /\ out.keys = t.subtasks \o Hits(t.has_jira, t.epic)
                       /\ out.searches = <<"Epic Link">>
            /\ (~epic /\ parent) => /\ out.keys = t.subtasks \o Hits(t.has_jira, t.parent)
                                    /\ out.searches = <<"Parent Link">>
            /\ (~epic /\ ~parent) => out.keys = t.subtasks /\ out.searches = <<>>

\* A ticket named with "EPIC" and a parent word, with a subtask, whose two
\* searches would answer different keys: the children are the subtask and
\* the Epic Link hit.
C23_Witness ==
    /\ child_output.called
    /\ Says(child_input.name, {"EPIC"})
    /\ Says(child_input.name, {"Feature", "initiative", "THEME"})
    /\ child_input.has_jira
    /\ Len(child_input.subtasks) = 1
    /\ Len(child_input.epic.issues) = 1
    /\ Len(child_input.parent.issues) = 1
    /\ child_input.epic.issues # child_input.parent.issues
    /\ child_output.value.keys = child_input.subtasks \o child_input.epic.issues

\* ------------------------------------------------------------ C24
\* C24: the level-0 items of the display list are exactly the keys of the
\* flat map that no child list of the hierarchy map holds; a designated root
\* that is also a child of a ticket is not at level 0.
C24_LevelZeroAreTheChildlessKeys ==
    display_data.called =>
        LET D == display_data.value
            top == {D[i].key : i \in {x \in 1..Len(D) : D[x].level = 0}}
        IN  /\ top = AllKeys(all_tickets) \ ChildKeysOfHierarchy
            /\ top \cap (Range(root_tickets) \cap ChildKeysOfHierarchy) = {}

\* The root that was processed first is shown below level 0, under a ticket
\* that was processed after it.
C24_Witness ==
    /\ display_data.called
    /\ Len(root_tickets) >= 2
    /\ LET D == display_data.value IN
       \E i \in 1..Len(D) : D[i].level > 0 /\ D[i].key = root_tickets[1]

\* ------------------------------------------------------------ C25
\* C25: the display list is a depth-first pre-order: an item at level n > 0
\* is a child of the nearest item before it at level n - 1, no item is more
\* than one level below the item before it, and the items shown under one
\* parent are in non-decreasing rank order.
C25_DepthFirstPreOrderByRank ==
    display_data.called =>
        LET D == display_data.value IN
        \A i \in 1..Len(D) :
            /\ D[i].level <= (IF i = 1 THEN 0 ELSE D[i - 1].level + 1)
            /\ D[i].level > 0 =>
                /\ OneLevelUpBefore(D, i) # {}
                /\ D[i].key \in Range(hierarchy[D[ShownUnder(D, i)].key])
                /\ \A j \in (i + 1)..Len(D) :
                    (D[j].level = D[i].level /\ ShownUnder(D, j) = ShownUnder(D, i))
                        => GetRank(all_tickets, D[i].key) <= GetRank(all_tickets, D[j].key)

\* A parent with two children of different rank, the one stored later shown
\* first.
C25_Witness ==
    /\ display_data.called
    /\ LET D == display_data.value IN
       \E i, j \in 1..Len(D) :
           /\ i < j
           /\ D[i].level = 1
           /\ D[j].level = 1
           /\ ShownUnder(D, i) = ShownUnder(D, j)
           /\ GetRank(all_tickets, D[i].key) < GetRank(all_tickets, D[j].key)
           /\ InAllTickets(all_tickets, D[i].key)
           /\ InAllTickets(all_tickets, D[j].key)
           /\ \E a, b \in 1..Len(all_tickets) :
                  a > b /\ all_tickets[a].key = D[i].key /\ all_tickets[b].key = D[j].key

\* ------------------------------------------------------------ C26
\* Position of key k in the flat map.
StoredAt(k) == CHOOSE i \in 1..Len(all_tickets) : all_tickets[i].key = k

\* C26: get_sorted_tickets_by_rank returns every key of the flat map once,
\* in non-decreasing derived rank, keys of equal rank in the order in which
\* they were stored; a ticket with neither rank nor creation timestamp has the
\* infinite rank and only such tickets follow it.
C26_StablePermutationByRank ==
    sorted_keys.called =>
        LET S == sorted_keys.value IN
        /\ Len(S) = Len(all_tickets)
        /\ Range(S) = AllKeys(all_tickets)
        /\ \A a, b \in 1..Len(S) :
            a < b =>
                /\ GetRank(all_tickets, S[a]) <= GetRank(all_tickets, S[b])
                /\ GetRank(all_tickets, S[a]) = GetRank(all_tickets, S[b])
                       => StoredAt(S[a]) < StoredAt(S[b])
                /\ (/\ TicketOf(all_tickets, S[a]).rank = NoRank
                    /\ TicketOf(all_tickets, S[a]).created = NoCreated)
                       => GetRank(all_tickets, S[b]) = Infinity

\* Two tickets of the same finite rank, and a ticket with neither rank nor
\* timestamp that was stored before one of them and comes last.
C26_Witness ==
    /\ sorted_keys.called
    /\ Len(sorted_keys.value) = 3
    /\ LET S == sorted_keys.value IN
       /\ GetRank(all_tickets, S[1]) = GetRank(all_tickets, S[2])
       /\ GetRank(all_tickets, S[1]) < Infinity
       /\ GetRank(all_tickets, S[3]) = Infinity
       /\ StoredAt(S[3]) < StoredAt(S[2])

\* ------------------------------------------------------------ C28
\* C28: the display list holds every key of the flat map, and only keys of
\* the flat map, whatever links the build recorded.
C28_EveryTicketDisplayed ==
    display_data.called =>
        Range(DisplayKeys(display_data.value)) = AllKeys(all_tickets)

\* ------------------------------------------------------------ C27
\* C27: two runs of the program over the same tracker data derive the same
\* ranks, so the rank order returned for the same flat map is the same.
C27_SameOrderInEveryRun ==
    [][(sorted_keys.called /\ sorted_keys'.called /\ all_tickets' = all_tickets)
           => sorted_keys'.value = sorted_keys.value]_vars

\* ------------------------------------------------------------ C29
\* C29: get_contributor_summary returns for the flat map and the hierarchy
\* map of every build, also when the hierarchy map holds a cycle.
C29_SummaryOfEveryBuildReturns ==
    result.op = "summary" => ~result.raised

\* ------------------------------------------------------------ C30
\* C30: on an instance, every metadata entry belongs to a cached ticket and
\* its last_updated is the "updated" field of the payload cached for that
\* key; a key whose payload has no "updated" field has no metadata entry.
C30_MetadataMatchesPayload ==
    cache_alive = "live" =>
        /\ \A k \in DOMAIN mem_metadata :
            /\ k \in DOMAIN mem_tickets
            /\ mem_metadata[k].last_updated = mem_tickets[k].updated
        /\ \A k \in DOMAIN mem_tickets :
            mem_tickets[k].updated.kind = "none" => k \notin DOMAIN mem_metadata

====
